---- MODULE Spec2Model ----
(***************************************************************************)
(* Session lifecycle controller of src/App.jsx (the Tello video relay      *)
(* screen): handleStartStream, sendCommand, startFFmpeg and its completion *)
(* callback, cleanup, the socket 'error' handler and the player callbacks. *)
(*                                                                         *)
(* JavaScript runs the handlers on one event loop: a handler runs without  *)
(* interruption up to its next await on an external collaborator (socket   *)
(* bind/send callback, timer, FFmpegKit promise), so every action below is *)
(* one such run-to-await segment.  The two variants of the component in    *)
(* the file (lines 56-325 and 428-711) have the same lifecycle code; line  *)
(* numbers refer to the first one.                                         *)
(***************************************************************************)
EXTENDS Integers, FiniteSets, Sequences, TLC

\* ---- bounds of the exploration ------------------------------------------
MaxStarts   == 2   \* start() calls that pass the guard
MaxRefused  == 1   \* start() calls refused by the guard
MaxStops    == 2   \* stop() calls (Disconnect button / unmount)
MaxSockErr  == 1   \* socket 'error' events
MaxFaults   == 1   \* FFmpegKit.cancel rejections and socket.close throws

Null  == 0
Procs == 1..MaxStarts          \* start() invocations; invocation p creates socket p
Socks == 1..MaxStarts
Sess  == 1..MaxStarts          \* relay session ids (at most one launch per start)
Logs  == {"X", "Y"}            \* captured relay log texts

\* ---- program constants ------------------------------------------------------
LOCAL_VIDEO_INPUT_PORT       == 11111
LOCAL_VIDEO_OUTPUT_HTTP_PORT == 11112

\* ---- messages: a template text and the interpolated ${...} detail ----------
Msg(text, detail) == [text |-> text, detail |-> detail]
NoError           == Msg("", "")
InitFailed(d)     == Msg("Initialization failed", d)
LaunchFailed(d)   == Msg("Failed to start FFmpeg", d)
SocketFault(d)    == Msg("UDP Socket error", d)
PlayerFault(d)    == Msg("Video Player Error", d)
BindErrorText     == "Failed to bind socket to port 9000"
NotInitialized    == "Socket not initialized"

VARIABLES
  isStreaming,      \* useState(false)
  errorMessage,     \* useState('')
  commandSocket,    \* commandSocket.current: Null or a socket id
  ffmpegSessionId,  \* ffmpegSessionId.current: Null or a session id
  pc,               \* position of each handleStartStream invocation
  awaitOk,          \* outcome of the FFmpegKit.cancel a start invocation awaits
  result,           \* how each start invocation ended
  sent,             \* handshake datagrams each start invocation handed to send()
  relayOf,          \* session launched by each start invocation, or Null
  detached,         \* cleanup() runs awaiting FFmpegKit.cancel, not awaited by a start
  sock,             \* state of each UDP socket
  relay,            \* state of each relay process
  cb,               \* position of each relay completion callback
  consoleLog,       \* last relay log text written to the console
  closeCalls,       \* close() invocations on each socket
  nStart, nRefused, nStop, nSockErr, nSess, faults,
  stoppedMid,       \* start invocations during which stop() was called
  stoppedStreaming  \* <<session, nStart>> at each stop() pressed in a settled Streaming state

ctl      == <<isStreaming, errorMessage, commandSocket, ffmpegSessionId>>
procVars == <<pc, awaitOk, result, sent, relayOf>>
envVars  == <<sock, relay, cb, consoleLog, closeCalls>>
counters == <<nStart, nRefused, nStop, nSockErr, nSess, faults, stoppedMid, stoppedStreaming>>
vars     == <<ctl, procVars, envVars, detached, counters>>

InFlight(p)     == pc[p] \notin {"idle", "done"}
NoStartInFlight == \A p \in Procs : ~InFlight(p)

\* ---- pieces of code as operators -----------------------------------------
\* the re-entrancy guard of handleStartStream
\* (variant: the guard looks at isStreaming only)
StartGuard_streamingOnly(streaming, socketRef, sessionRef) == streaming

\* (variant: the guard without its commandSocket.current term)
StartGuard_noSocketCheck(streaming, socketRef, sessionRef) ==
  streaming \/ sessionRef # Null

StartGuard(streaming, socketRef, sessionRef) ==
  streaming \/ socketRef # Null \/ sessionRef # Null

\* cleanup: 'finally { commandSocket.current = null }'
\* (variant: the reference is never reset)
ClearedSocketRef_never(socketRef, threw) == socketRef

\* (variant: the assignment inside the try block, skipped when close() throws)
ClearedSocketRef_keep(socketRef, threw) == IF threw THEN socketRef ELSE Null

ClearedSocketRef(socketRef, threw) == Null

\* cleanup: 'try { await cancel } catch { log } finally { ffmpegSessionId.current = null }'
\* (variant: the assignment after the await inside the try block)
SessionRefAfterCancel_noFinally(sessionRef, ok) == IF ok THEN Null ELSE sessionRef

SessionRefAfterCancel(sessionRef, ok) == Null

\* completion callback: 'if (ffmpegSessionId.current === sessionId) ffmpegSessionId.current = null'
\* (variant: the handle is left for cleanup to clear)
SessionRefAfterCompletion_never(sessionRef, id) == sessionRef

SessionRefAfterCompletion(sessionRef, id) ==
  IF sessionRef = id THEN Null ELSE sessionRef

\* completion callback, Failed branch: the message shown for captured log text 'logs'
\* (variant: the log text interpolated into the message)
FailedMessage_fromLog(logs) == Msg("FFmpeg Error! Check console logs for details.", logs)

FailedMessage(logs) == Msg("FFmpeg Error! Check console logs for details.", "")

\* handleStartStream: what follows a successful send callback ('command', 500 ms,
\* 'streamon', 500 ms, startFFmpeg)
\* (variant: the promise of sendCommand is never resolved)
AfterSend_neverResolves(pos) == "suspended"

\* (variant: 'streamon' and its delay left out)
AfterSend_skipStreamon(pos) == "delay2"

AfterSend(pos) == IF pos = "send1" THEN "delay1" ELSE "delay2"

\* startFFmpeg: 'if (ffmpegSessionId.current) { await FFmpegKit.cancel(...) ... }'
\* (variant: the lingering session is not cancelled before the new launch)
StartFFmpegEntry_noCancel(sessionRef) == "exec"

StartFFmpegEntry(sessionRef) == IF sessionRef # Null THEN "ffCancel" ELSE "exec"

\* completion callback: isSuccess / isCancel / else; "logs" is the failed branch
\* (variant: no isCancel branch, a cancelled relay is handled as a failed one)
CompletionBranch_noCancelCase(outcome) == IF outcome = "Success" THEN "done" ELSE "logs"

CompletionBranch(outcome) == IF outcome = "Failed" THEN "logs" ELSE "done"

\* the Video element: rendered only while isStreaming, with this source
Uri(port) == [scheme |-> "http", host |-> "127.0.0.1", port |-> port]
NoSource  == [scheme |-> "", host |-> "", port |-> 0]
\* (variant: the player pointed at the relay's input port)
PlayerSource_inputPort(streaming) ==
  IF streaming THEN Uri(LOCAL_VIDEO_INPUT_PORT) ELSE NoSource

PlayerSource(streaming) ==
  IF streaming THEN Uri(LOCAL_VIDEO_OUTPUT_HTTP_PORT) ELSE NoSource

\* cleanup: 'setErrorMessage("")' overwrites what its caller set in the same turn
MessageAfterCleanup(setByCaller) == NoError

\* FFmpegKit.cancel(id): when it is going to resolve, a running relay is told to stop
CancelEffect(r, id, ok) ==
  IF ok /\ r[id] = "running" THEN [r EXCEPT ![id] = "cancelling"] ELSE r

\* a step of a start invocation ran while these cleanup runs were pending
Taint(d) ==
  [k \in BOOLEAN \X BOOLEAN |->
     IF k[2] THEN 0 ELSE d[<<k[1], TRUE>>] + d[<<k[1], FALSE>>]]

AddDetached(d, ok, alone) == [d EXCEPT ![<<ok, alone>>] = @ + 1]

\* ---- initial state: the component just mounted ---------------------------------
Init ==
  /\ isStreaming = FALSE
  /\ errorMessage = NoError
  /\ commandSocket = Null
  /\ ffmpegSessionId = Null
  /\ pc = [p \in Procs |-> "idle"]
  /\ awaitOk = [p \in Procs |-> TRUE]
  /\ result = [p \in Procs |-> "none"]
  /\ sent = [p \in Procs |-> 0]
  /\ relayOf = [p \in Procs |-> Null]
  /\ detached = [k \in BOOLEAN \X BOOLEAN |-> 0]
  /\ sock = [s \in Socks |-> "none"]
  /\ relay = [i \in Sess |-> "none"]
  /\ cb = [i \in Sess |-> [pc |-> "none", outcome |-> "none", tracked |-> FALSE]]
  /\ consoleLog = ""
  /\ closeCalls = [s \in Socks |-> 0]
  /\ nStart = 0 /\ nRefused = 0 /\ nStop = 0 /\ nSockErr = 0 /\ nSess = 0
  /\ stoppedMid = {}
  /\ stoppedStreaming = {}
  /\ faults = 0

\* ---- cleanup ---------------------------------------------------------------
\* 'Close UDP socket' section of cleanup; constrains commandSocket, sock,
\* closeCalls and faults.
\* sockNow is the state of the sockets when the section runs.
CloseSection(sockNow) ==
  IF commandSocket = Null
  THEN /\ sock' = sockNow
       /\ UNCHANGED <<commandSocket, closeCalls, faults>>
  ELSE \E threw \in BOOLEAN :
         /\ closeCalls' = [closeCalls EXCEPT ![commandSocket] = @ + 1]
         /\ threw => faults < MaxFaults
         /\ sock' = IF threw THEN sockNow ELSE [sockNow EXCEPT ![commandSocket] = "closed"]
         /\ faults' = IF threw THEN faults + 1 ELSE faults
         /\ commandSocket' = ClearedSocketRef(commandSocket, threw)

\* cleanup() from its call to its first await or its end.  owner is the start
\* invocation whose catch block awaits it, or 0 when nobody awaits it.
\* setByCaller is the message the caller set just before calling.
\* Constrains ctl, sock, relay, detached, pc, awaitOk and faults.
CleanupCall(owner, setByCaller, sockNow) ==
  /\ isStreaming' = FALSE
  /\ errorMessage' = MessageAfterCleanup(setByCaller)
  /\ IF ffmpegSessionId # Null
     THEN \E ok \in BOOLEAN :
            /\ ~ok => faults < MaxFaults
            /\ faults' = IF ok THEN faults ELSE faults + 1
            /\ relay' = CancelEffect(relay, ffmpegSessionId, ok)
            /\ IF owner = 0
               THEN /\ detached' = AddDetached(detached, ok, NoStartInFlight)
                    /\ UNCHANGED <<pc, awaitOk>>
               ELSE /\ detached' = Taint(detached)
                    /\ pc' = [pc EXCEPT ![owner] = "cleanup"]
                    /\ awaitOk' = [awaitOk EXCEPT ![owner] = ok]
            /\ sock' = sockNow
            /\ UNCHANGED <<commandSocket, ffmpegSessionId, closeCalls>>
     ELSE /\ CloseSection(sockNow)
          /\ IF owner = 0
             THEN UNCHANGED <<pc, detached>>
             ELSE /\ pc' = [pc EXCEPT ![owner] = "done"]
                  /\ detached' = Taint(detached)
          /\ UNCHANGED <<ffmpegSessionId, relay, awaitOk>>

\* a cleanup() nobody awaits continues after its FFmpegKit.cancel settled
CleanupResume ==
  \E k \in BOOLEAN \X BOOLEAN :
    /\ detached[k] > 0
    /\ detached' = [detached EXCEPT ![k] = @ - 1]
    /\ ffmpegSessionId' = SessionRefAfterCancel(ffmpegSessionId, k[1])
    /\ CloseSection(sock)
    /\ UNCHANGED <<isStreaming, errorMessage, procVars, relay, cb, consoleLog,
                   nStart, nRefused, nStop, stoppedMid, stoppedStreaming, nSockErr, nSess>>

\* the cleanup() awaited by the catch block of a start invocation continues
StartCleanupResume(p) ==
  /\ pc[p] = "cleanup"
  /\ pc' = [pc EXCEPT ![p] = "done"]
  /\ ffmpegSessionId' = SessionRefAfterCancel(ffmpegSessionId, awaitOk[p])
  /\ CloseSection(sock)
  /\ detached' = Taint(detached)
  /\ UNCHANGED <<isStreaming, errorMessage, awaitOk, result, sent, relayOf,
                 relay, cb, consoleLog, nStart, nRefused, nStop, stoppedMid,
                 stoppedStreaming, nSockErr, nSess>>

\* the relay is tracked and playing, the socket is held, and neither a start
\* sequence nor a cleanup has a step still to run
SettledStreaming ==
  /\ isStreaming /\ ffmpegSessionId # Null /\ commandSocket # Null
  /\ NoStartInFlight
  /\ \A k \in BOOLEAN \X BOOLEAN : detached[k] = 0

\* handleDisconnectPress, and the unmount effect: cleanup() not awaited
Stop ==
  /\ nStop < MaxStops
  /\ nStop' = nStop + 1
  /\ stoppedMid' = stoppedMid \cup {p \in Procs : InFlight(p) /\ pc[p] # "cleanup"}
  /\ stoppedStreaming' = IF SettledStreaming
                         THEN stoppedStreaming \cup {<<ffmpegSessionId, nStart>>}
                         ELSE stoppedStreaming
  /\ CleanupCall(0, errorMessage, sock)
  /\ UNCHANGED <<result, sent, relayOf, cb, consoleLog, nStart, nRefused, nSockErr, nSess>>

\* the socket's 'error' handler: setErrorMessage(errorMsg); cleanup()
SocketError(s) ==
  /\ sock[s] \notin {"none", "closed"}
  /\ nSockErr < MaxSockErr
  /\ nSockErr' = nSockErr + 1
  /\ CleanupCall(0, SocketFault("socket error"), sock)
  /\ UNCHANGED <<result, sent, relayOf, cb, consoleLog, nStart, nRefused, nStop,
                 stoppedMid, stoppedStreaming, nSess>>

\* ---- handleStartStream -----------------------------------------------------
\* the catch block: setErrorMessage(`Initialization failed: ...`); await cleanup()
\* res names the error caught, detail is its error.message
Catch(p, res, detail, sockNow) ==
  /\ result' = [result EXCEPT ![p] = res]
  /\ CleanupCall(p, InitFailed(detail), sockNow)

\* sendCommand(command) called by start invocation p; next is the position
\* while the send callback is awaited
SendCommand(p, next, sockNow) ==
  IF commandSocket = Null
  THEN /\ Catch(p, "noSocket", NotInitialized, sockNow)                 \* reject(new Error("Socket not initialized"))
       /\ UNCHANGED sent
  ELSE /\ sent' = [sent EXCEPT ![p] = @ + 1]    \* commandSocket.current.send(...)
       /\ pc' = [pc EXCEPT ![p] = next]
       /\ detached' = Taint(detached)
       /\ sock' = sockNow
       /\ UNCHANGED <<ctl, awaitOk, result, relay, closeCalls, faults>>

\* the button handler up to 'await new Promise(... bind ...)'
HandleStartStream ==
  IF StartGuard(isStreaming, commandSocket, ffmpegSessionId)
  THEN /\ nRefused < MaxRefused                 \* "Already streaming or attempting to start."
       /\ nRefused' = nRefused + 1
       /\ UNCHANGED <<ctl, procVars, envVars, detached,
                      nStart, nStop, stoppedMid, stoppedStreaming, nSockErr, nSess, faults>>
  ELSE /\ nStart < MaxStarts
       /\ LET p == nStart + 1 IN
            /\ nStart' = p
            /\ errorMessage' = NoError
            /\ isStreaming' = FALSE
            /\ commandSocket' = p               \* dgram.createSocket
            /\ sock' = [sock EXCEPT ![p] = "binding"]
            /\ pc' = [pc EXCEPT ![p] = "bind"]
       /\ detached' = Taint(detached)
       /\ UNCHANGED <<ffmpegSessionId, awaitOk, result, sent, relayOf, relay, cb,
                      consoleLog, closeCalls, nRefused, nStop, stoppedMid,
                      stoppedStreaming, nSockErr, nSess, faults>>

\* the socket after its bind callback reported success or an error
BindOutcome(sk, s, ok) ==
  IF sk[s] # "binding" THEN sk
  ELSE [sk EXCEPT ![s] = IF ok THEN "bound" ELSE "unbound"]

\* the bind callback of the socket created by p fires
BindCallback(p) ==
  /\ pc[p] = "bind"
  /\ \E err \in BOOLEAN :
       IF err
       THEN /\ Catch(p, "bindErr", BindErrorText, BindOutcome(sock, p, FALSE))
            /\ UNCHANGED sent
       ELSE SendCommand(p, "send1", BindOutcome(sock, p, TRUE))
  /\ UNCHANGED <<relayOf, cb, consoleLog, nStart, nRefused, nStop, stoppedMid,
                 stoppedStreaming, nSockErr, nSess>>

\* the send callback of a handshake datagram fires
SendCallback(p) ==
  /\ pc[p] \in {"send1", "send2"}
  /\ \E err \in BOOLEAN :
       IF err
       THEN /\ Catch(p, IF pc[p] = "send1" THEN "send1Err" ELSE "send2Err", "send error", sock)
       ELSE /\ pc' = [pc EXCEPT ![p] = AfterSend(pc[p])]
            /\ detached' = Taint(detached)
            /\ UNCHANGED <<ctl, awaitOk, result, sock, closeCalls, relay, faults>>
  /\ UNCHANGED <<sent, relayOf, cb, consoleLog, nStart, nRefused, nStop, stoppedMid,
                 stoppedStreaming, nSockErr, nSess>>

\* the 500 ms timer after 'command' fires: sendCommand('streamon')
Delay1Elapsed(p) ==
  /\ pc[p] = "delay1"
  /\ SendCommand(p, "send2", sock)
  /\ UNCHANGED <<relayOf, cb, consoleLog, nStart, nRefused, nStop, stoppedMid,
                 stoppedStreaming, nSockErr, nSess>>

\* the 500 ms timer after 'streamon' fires: startFFmpeg() up to its first await
Delay2Elapsed(p) ==
  /\ pc[p] = "delay2"
  /\ errorMessage' = NoError
  /\ IF StartFFmpegEntry(ffmpegSessionId) = "ffCancel"
     THEN \E ok \in BOOLEAN :                   \* await FFmpegKit.cancel(old)
            /\ ~ok => faults < MaxFaults
            /\ faults' = IF ok THEN faults ELSE faults + 1
            /\ relay' = CancelEffect(relay, ffmpegSessionId, ok)
            /\ awaitOk' = [awaitOk EXCEPT ![p] = ok]
            /\ pc' = [pc EXCEPT ![p] = "ffCancel"]
     ELSE /\ pc' = [pc EXCEPT ![p] = "exec"]    \* await FFmpegKit.executeAsync
          /\ UNCHANGED <<relay, awaitOk, faults>>
  /\ detached' = Taint(detached)
  /\ UNCHANGED <<isStreaming, commandSocket, ffmpegSessionId, result, sent, relayOf,
                 sock, closeCalls, cb, consoleLog, nStart, nRefused, nStop, stoppedMid,
                 stoppedStreaming,
                 nSockErr, nSess>>

\* startFFmpeg: the awaited cancel of the previous session settled
FFCancelDone(p) ==
  /\ pc[p] = "ffCancel"
  /\ IF awaitOk[p]
     THEN /\ ffmpegSessionId' = Null
          /\ pc' = [pc EXCEPT ![p] = "exec"]
          /\ detached' = Taint(detached)
          /\ UNCHANGED <<isStreaming, errorMessage, commandSocket, awaitOk, result,
                         sock, closeCalls, relay, faults>>
     ELSE Catch(p, "cancelErr", "cancel error", sock)                \* the rejection leaves startFFmpeg
  /\ UNCHANGED <<sent, relayOf, cb, consoleLog, nStart, nRefused, nStop, stoppedMid,
                 stoppedStreaming, nSockErr, nSess>>

\* startFFmpeg: FFmpegKit.executeAsync settled
ExecDone(p) ==
  /\ pc[p] = "exec"
  /\ pc' = [pc EXCEPT ![p] = "done"]
  /\ \E ok \in BOOLEAN :
       IF ok
       THEN LET id == nSess + 1 IN
            /\ nSess' = id
            /\ relay' = [relay EXCEPT ![id] = "running"]
            /\ ffmpegSessionId' = id            \* = await session.getSessionId()
            /\ isStreaming' = TRUE
            /\ relayOf' = [relayOf EXCEPT ![p] = id]
            /\ result' = [result EXCEPT ![p] = "launched"]
            /\ UNCHANGED errorMessage
       ELSE /\ errorMessage' = LaunchFailed("launch error")
            /\ isStreaming' = FALSE
            /\ result' = [result EXCEPT ![p] = "launchErr"]
            /\ UNCHANGED <<ffmpegSessionId, relayOf, relay, nSess>>
  /\ detached' = Taint(detached)
  /\ UNCHANGED <<commandSocket, awaitOk, sent, sock, closeCalls, cb, consoleLog,
                 nStart, nRefused, nStop, stoppedMid, stoppedStreaming, nSockErr, faults>>

\* ---- the relay process and its completion callback ---------------------------
\* the relay process ends; FFmpegKit invokes the completion callback, which
\* first awaits completedSession.getReturnCode()
RelayTerminates(id) ==
  /\ relay[id] \in {"running", "cancelling"}
  /\ \E o \in {"Success", "Failed"} \cup (IF relay[id] = "cancelling" THEN {"Cancelled"} ELSE {}) :
       cb' = [cb EXCEPT ![id] = [pc |-> "rc", outcome |-> o, tracked |-> FALSE]]
  /\ relay' = [relay EXCEPT ![id] = "terminated"]
  /\ UNCHANGED <<ctl, procVars, detached, sock, closeCalls, consoleLog, counters>>

\* the callback after getReturnCode(): the id comparison and the outcome branches
CompletionReturnCode(id) ==
  /\ cb[id].pc = "rc"
  /\ ffmpegSessionId' = SessionRefAfterCompletion(ffmpegSessionId, id)
  /\ cb' = [cb EXCEPT ![id].pc = CompletionBranch(cb[id].outcome),
                      ![id].tracked = (ffmpegSessionId = id)]
  /\ UNCHANGED <<isStreaming, errorMessage, commandSocket, procVars, detached,
                 sock, closeCalls, relay, consoleLog, counters>>

\* the Failed branch after getAllLogsAsString()
CompletionLogs(id) ==
  /\ cb[id].pc = "logs"
  /\ \E logs \in Logs :
       /\ consoleLog' = logs
       /\ errorMessage' = FailedMessage(logs)
  /\ isStreaming' = FALSE
  /\ cb' = [cb EXCEPT ![id].pc = "done"]
  /\ UNCHANGED <<commandSocket, ffmpegSessionId, procVars, detached, sock, closeCalls,
                 relay, counters>>

\* ---- player callbacks (the Video element exists only while isStreaming) -----
OnVideoLoad ==
  /\ isStreaming
  /\ errorMessage # NoError
  /\ errorMessage' = NoError
  /\ UNCHANGED <<isStreaming, commandSocket, ffmpegSessionId, procVars, envVars,
                 detached, counters>>

OnVideoError ==
  /\ isStreaming
  /\ errorMessage' = PlayerFault("player error")
  /\ UNCHANGED <<isStreaming, commandSocket, ffmpegSessionId, procVars, envVars,
                 detached, counters>>

Next ==
  \/ HandleStartStream
  \/ \E p \in Procs : BindCallback(p)
  \/ \E p \in Procs : SendCallback(p)
  \/ \E p \in Procs : Delay1Elapsed(p)
  \/ \E p \in Procs : Delay2Elapsed(p)
  \/ \E p \in Procs : FFCancelDone(p)
  \/ \E p \in Procs : ExecDone(p)
  \/ \E p \in Procs : StartCleanupResume(p)
  \/ Stop
  \/ CleanupResume
  \/ \E s \in Socks : SocketError(s)
  \/ \E i \in Sess : RelayTerminates(i)
  \/ \E i \in Sess : CompletionReturnCode(i)
  \/ \E i \in Sess : CompletionLogs(i)
  \/ OnVideoLoad
  \/ OnVideoError

Spec == Init /\ [][Next]_vars

\* the continuation of the start invocation p after the collaborator step it
\* awaits (bind callback, send callback, timer, cancel, executeAsync) completed
StartStep(p) ==
  \/ BindCallback(p) \/ SendCallback(p)
  \/ Delay1Elapsed(p) \/ Delay2Elapsed(p)
  \/ FFCancelDone(p) \/ ExecDone(p)
  \/ StartCleanupResume(p)

\* every collaborator step a start invocation awaits eventually completes
FairSpec == Spec /\ WF_vars(\E p \in Procs : StartStep(p))

TypeOK ==
  /\ isStreaming \in BOOLEAN
  /\ stoppedStreaming \subseteq Sess \X (0..MaxStarts)
  /\ commandSocket \in {Null} \cup Socks
  /\ ffmpegSessionId \in {Null} \cup Sess
  /\ \A p \in Procs : sent[p] \in 0..2

\* ---- session states as the controller exposes them ----------------------------
Idle       == ~isStreaming /\ errorMessage = NoError
ErrorState == ~isStreaming /\ errorMessage # NoError
PendingCleanups == detached[<<TRUE, TRUE>>] + detached[<<TRUE, FALSE>>]
                   + detached[<<FALSE, TRUE>>] + detached[<<FALSE, FALSE>>]
\* no start and no cleanup has a step still to run
Quiescent  == NoStartInFlight /\ PendingCleanups = 0

\* C1: in every quiescent state (no start or cleanup step in flight) in which
\* the session is Idle (isStreaming false, errorMessage empty), both
\* commandSocket.current and ffmpegSessionId.current are null.
C1_IdleHoldsNothing ==
  (Quiescent /\ Idle) => (commandSocket = Null /\ ffmpegSessionId = Null)

\* a session was started, streamed, and a stop() tore it down
C1_Witness ==
  /\ Quiescent /\ Idle
  /\ nStop > 0
  /\ \E p \in Procs : result[p] = "launched" /\ sock[p] = "closed"
                      /\ relay[relayOf[p]] \in {"cancelling", "terminated"}

\* C2: when stop() was called at a suspension point of a start sequence and
\* no later start() was issued, then once every in-flight step has completed
\* the socket is closed and null, no relay is running, ffmpegSessionId.current
\* is null and isStreaming is false.
C2_StopMidStartTearsDown ==
  \A p \in Procs :
    (p \in stoppedMid /\ p = nStart /\ Quiescent) =>
       /\ commandSocket = Null
       /\ faults = 0 => sock[p] = "closed"
       /\ \A i \in Sess : relay[i] # "running"
       /\ ffmpegSessionId = Null
       /\ ~isStreaming

\* a step of the completion callback of session id that found another (or no)
\* session tracked when it compared the ids
StaleCompletionStep(id) ==
  \/ cb[id].pc = "rc" /\ cb'[id].pc # "rc" /\ ffmpegSessionId # id
  \/ cb[id].pc = "logs" /\ cb'[id].pc = "done" /\ ~cb[id].tracked

\* C3: a completion callback whose session id differs from the tracked one
\* changes none of ffmpegSessionId.current, commandSocket.current, isStreaming
\* and errorMessage, whatever its outcome.
C3_StaleCompletionIgnored ==
  [][\A id \in Sess : StaleCompletionStep(id) => UNCHANGED ctl]_vars

\* the session states in which start() must refuse
Streaming   == isStreaming
Handshaking == ~isStreaming /\ \E p \in Procs : InFlight(p) /\ commandSocket = p
StartCalled == nStart' # nStart \/ nRefused' # nRefused

\* C4: start() called while Handshaking or Streaming is a no-op: no socket is
\* created or bound, nothing is sent, no relay is launched, and socket, relay
\* handle, isStreaming and errorMessage stay as they are.
C4_StartWhileActiveIsNoOp ==
  [][(StartCalled /\ (Handshaking \/ Streaming)) =>
        (nStart' = nStart /\ UNCHANGED <<ctl, procVars, envVars, nSess>>)]_vars

\* start() was refused while the first start was awaiting its bind callback
C4_Witness ==
  /\ nRefused > 0 /\ nStart = 1 /\ pc[1] = "bind"
  /\ nStop = 0 /\ nSockErr = 0 /\ commandSocket = 1

RunningRelays == {i \in Sess : relay[i] = "running"}

\* C5: never are two launched relay processes both still running.
C5_AtMostOneRelay == Cardinality(RunningRelays) <= 1

\* a cleanup() that no start awaited and during which no start step ran ends
\* in this step after swallowing a rejected cancel or a throwing close
AloneCleanupEnds(ok) ==
  /\ detached'[<<ok, TRUE>>] = detached[<<ok, TRUE>>] - 1
  /\ detached'[<<ok, FALSE>>] = detached[<<ok, FALSE>>]
CloseThrew == faults' = faults + 1 /\ PendingCleanups' <= PendingCleanups
FaultyCleanupEnds ==
  \/ AloneCleanupEnds(FALSE)
  \/ AloneCleanupEnds(TRUE) /\ CloseThrew
  \/ NoStartInFlight /\ CloseThrew /\ PendingCleanups' = PendingCleanups

\* C6 as stated: a cleanup in which FFmpegKit.cancel rejects or socket.close
\* throws, with no start() in flight, still ends with ffmpegSessionId.current
\* null, commandSocket.current null, isStreaming false and errorMessage empty.
C6_FaultyCleanupReachesIdle ==
  [][FaultyCleanupEnds =>
       (ffmpegSessionId' = Null /\ commandSocket' = Null /\ ~isStreaming'
        /\ errorMessage' = NoError)]_vars

Settles(p, res) == pc[p] # "done" /\ pc'[p] = "done" /\ result'[p] \in res

\* C7: when the bind fails, start() settles in Error (isStreaming false, a
\* non-empty message), with commandSocket.current and ffmpegSessionId.current
\* null, no handshake command sent and no relay launched.
C7_BindFailureEndsInError ==
  [][\A p \in Procs : Settles(p, {"bindErr"}) =>
        /\ ~isStreaming' /\ errorMessage' # NoError
        /\ commandSocket' = Null /\ ffmpegSessionId' = Null
        /\ sent'[p] = 0 /\ relayOf'[p] = Null]_vars

\* C8: when a handshake send fails, that start() launches no relay, the socket
\* is closed and nulled, and the final state is Error.
C8_SendFailureEndsInError ==
  [][\A p \in Procs : Settles(p, {"send1Err", "send2Err"}) =>
        /\ relayOf'[p] = Null
        /\ commandSocket' = Null
        /\ ~isStreaming' /\ errorMessage' # NoError]_vars

\* C9: when FFmpegKit.executeAsync rejects, start() ends in Error with a
\* message and full teardown: commandSocket.current null, ffmpegSessionId.current
\* null, isStreaming false.
C9_LaunchFailureTearsDown ==
  [][\A p \in Procs : Settles(p, {"launchErr"}) =>
        /\ ~isStreaming' /\ errorMessage' # NoError
        /\ commandSocket' = Null /\ ffmpegSessionId' = Null]_vars

\* steps of the completion callback of the tracked session
TrackedCompare(id)    == cb[id].pc = "rc" /\ cb'[id].pc # "rc" /\ ffmpegSessionId = id
TrackedFailedEnds(id) == cb[id].pc = "logs" /\ cb'[id].pc = "done" /\ cb[id].tracked

\* C10 as stated: a Failed completion of the tracked session with log text X
\* clears the relay handle, sets isStreaming false, and sets an error message
\* derived from X.
C10_FailedMessageFromLog ==
  [][\A id \in Sess :
       /\ TrackedCompare(id) => ffmpegSessionId' = Null
       /\ TrackedFailedEnds(id) =>
            (~isStreaming' /\ errorMessage' # NoError
             /\ errorMessage'.detail = consoleLog')]_vars

\* C10 amended: ... and sets the fixed message 'FFmpeg Error! Check console
\* logs for details.', the same for every log text; X goes to the console only.
C10_FailedMessageFixed ==
  [][\A id \in Sess :
       /\ TrackedCompare(id) => ffmpegSessionId' = Null
       /\ TrackedFailedEnds(id) =>
            (~isStreaming'
             /\ errorMessage' = Msg("FFmpeg Error! Check console logs for details.", "")
             /\ consoleLog' \in Logs)]_vars

\* the tracked relay failed while streaming with log X and the callback ended
C10_Witness ==
  \E id \in Sess :
    /\ cb[id] = [pc |-> "done", outcome |-> "Failed", tracked |-> TRUE]
    /\ consoleLog = "X"
    /\ ErrorState /\ ffmpegSessionId = Null /\ commandSocket # Null
    /\ nStop = 0 /\ nSockErr = 0

\* the steps of the start sequence p that put one of its three handshake
\* operations in flight
SendsNext(p, n)   == sent[p] = n - 1 /\ sent'[p] = n
EntersLaunch(p)   == pc[p] \notin {"ffCancel", "exec"} /\ pc'[p] \in {"ffCancel", "exec"}
Enters(p, pos)    == pc[p] # pos /\ pc'[p] = pos

\* C11: within one start() the handshake is strictly ordered: 'streamon' is
\* sent only once the send of 'command' has completed and its 500 ms delay has
\* elapsed, the relay launch is entered only once the send of 'streamon' has
\* completed and its delay has elapsed, and a step is entered only from the
\* step before it, so no two of them are in flight together.
C11_HandshakeOrdered ==
  [][\A p \in Procs :
       /\ sent'[p] # sent[p] => (SendsNext(p, 1) \/ SendsNext(p, 2))
       /\ SendsNext(p, 1) => (pc[p] = "bind" /\ pc'[p] = "send1")
       /\ Enters(p, "delay1") => (pc[p] = "send1" /\ sent[p] = 1)
       /\ SendsNext(p, 2) => (pc[p] = "delay1" /\ pc'[p] = "send2")
       /\ Enters(p, "delay2") => (pc[p] = "send2" /\ sent[p] = 2)
       /\ EntersLaunch(p) => (pc[p] = "delay2" /\ sent[p] = 2)
       /\ Enters(p, "exec") => pc[p] \in {"delay2", "ffCancel"}
       /\ relayOf'[p] # relayOf[p] => (pc[p] = "exec" /\ sent[p] = 2)]_vars

\* a start sequence reached the relay launch with both datagrams sent
C11_Witness ==
  \E p \in Procs : pc[p] = "exec" /\ sent[p] = 2 /\ relayOf[p] = Null

\* C12: a start() whose bind, two sends and relay launch all succeed, with no
\* stop, socket error or completion callback before it settles, ends in
\* Streaming: isStreaming true, ffmpegSessionId.current the id of the relay it
\* launched, its socket still open and referenced, and the player pointed at
\* http://127.0.0.1:11112.
C12_SuccessPathStreams ==
  [][\A p \in Procs :
       (/\ Settles(p, {"launched"})
        /\ nStop = 0 /\ nSockErr = 0
        /\ \A id \in Sess : cb[id].pc = "none") =>
          /\ isStreaming'
          /\ relayOf'[p] # Null /\ ffmpegSessionId' = relayOf'[p]
          /\ relay'[relayOf'[p]] = "running"
          /\ commandSocket' = p /\ sock'[p] = "bound"
          /\ sent'[p] = 2
          /\ PlayerSource(isStreaming') =
               [scheme |-> "http", host |-> "127.0.0.1", port |-> 11112]]_vars

\* the first start() succeeded and nothing else has happened
C12_Witness ==
  /\ pc[1] = "done" /\ result[1] = "launched"
  /\ nStop = 0 /\ nSockErr = 0 /\ \A id \in Sess : cb[id].pc = "none"
  /\ isStreaming /\ ffmpegSessionId = relayOf[1] /\ commandSocket = 1

\* stop() pressed while a relay is tracked and playing
StopFromStreaming == nStop' = nStop + 1 /\ isStreaming /\ ffmpegSessionId # Null

\* C13: stop() pressed while Streaming requests the cancel of the tracked
\* relay and waits for it before closing the socket; when the Cancelled
\* completion of that relay has arrived and every step has run (with no
\* start() since that stop and no failure of another relay), the session is
\* Idle and not in Error: isStreaming false, errorMessage empty, socket
\* reference null, relay handle null.
C13_StopFromStreamingEndsIdle ==
  /\ [][StopFromStreaming =>
          /\ (relay'[ffmpegSessionId] # "running" \/ faults' = faults + 1)
          /\ PendingCleanups' = PendingCleanups + 1
          /\ ~isStreaming' /\ errorMessage' = NoError]_vars
  /\ [](\A id \in Sess :
          (/\ <<id, nStart>> \in stoppedStreaming
           /\ cb[id].pc = "done" /\ cb[id].outcome = "Cancelled"
           /\ \A other \in Sess \ {id} : cb[other].outcome # "Failed"
           /\ Quiescent) =>
             (Idle /\ commandSocket = Null /\ ffmpegSessionId = Null))

\* the streaming session was stopped, its relay reported the cancel, and the
\* cleanup has closed the socket
C13_Witness ==
  /\ result[1] = "launched" /\ nStart = 1 /\ nStop = 1
  /\ <<relayOf[1], 1>> \in stoppedStreaming
  /\ cb[relayOf[1]].pc = "done" /\ cb[relayOf[1]].outcome = "Cancelled"
  /\ Quiescent /\ Idle /\ sock[1] = "closed" /\ faults = 0

\* the socket's 'error' callback fires
SocketErrorFires == nSockErr' = nSockErr + 1

\* C14: when the socket's 'error' callback fires in Handshaking or Streaming
\* the session is torn down and left failed: the tracked relay is
\* cancel-requested, the socket is closed and its reference nulled (at once
\* when no relay is tracked), isStreaming becomes false, and the session is
\* in Error carrying the socket error message.
C14_SocketErrorEndsInError ==
  [][(SocketErrorFires /\ (Handshaking \/ Streaming)) =>
        /\ ~isStreaming'
        /\ ffmpegSessionId # Null =>
             (relay'[ffmpegSessionId] # "running" \/ faults' = faults + 1)
        /\ ffmpegSessionId = Null => commandSocket' = Null
        /\ errorMessage' = SocketFault("socket error")]_vars

\* the state stop() leaves behind at its first suspension or its end
PostStop ==
  /\ Idle
  /\ ffmpegSessionId = Null => commandSocket = Null
  /\ ffmpegSessionId # Null => PendingCleanups > 0
StopCalled           == nStop' = nStop + 1
DetachedCleanupEnds  == PendingCleanups' = PendingCleanups - 1

\* C15: stop() is idempotent.  Called when Idle with nothing in flight it
\* changes no state and invokes neither FFmpegKit.cancel nor socket.close;
\* called again right after a stop() it leaves isStreaming, errorMessage, both
\* references and the sockets as the first call left them, and every cleanup
\* it started ends with both references null and isStreaming and errorMessage
\* untouched, so n calls in a row end in the state one call ends in.
C15_StopIdempotent ==
  [][/\ (StopCalled /\ Idle /\ Quiescent) =>
          UNCHANGED <<ctl, procVars, envVars, detached, faults>>
     /\ (StopCalled /\ PostStop) =>
          (UNCHANGED <<ctl, procVars, sock, closeCalls, cb>> /\ PostStop')
     /\ DetachedCleanupEnds =>
          /\ ffmpegSessionId' = Null /\ commandSocket' = Null
          /\ UNCHANGED <<isStreaming, errorMessage>>]_vars

\* stop() was called twice in a row while streaming: both cleanups await the
\* cancel of the same relay
C15_Witness ==
  /\ nStart = 1 /\ result[1] = "launched" /\ nStop = 2 /\ PendingCleanups = 2
  /\ ffmpegSessionId = relayOf[1] /\ commandSocket = 1 /\ PostStop

\* the session is in Error because the tracked relay failed while streaming;
\* the completion callback released nothing but the relay handle
FailedWithSocket ==
  /\ ErrorState /\ \E l \in Logs : errorMessage = FailedMessage(l)
  /\ \E id \in Sess : cb[id] = [pc |-> "done", outcome |-> "Failed", tracked |-> TRUE]
  /\ commandSocket # Null /\ sock[commandSocket] = "bound"
  /\ ffmpegSessionId = Null

\* C16 as stated: after a relay Failed completion left the session in Error
\* with the command socket open, the next start(), with no stop() in between,
\* releases the socket still held and begins a new session with a new socket.
C16_StartAfterFailureRecovers ==
  [][(StartCalled /\ FailedWithSocket) =>
        /\ nStart' = nStart + 1
        /\ sock'[commandSocket] = "closed"
        /\ commandSocket' = nStart' /\ sock'[nStart'] = "binding"]_vars

\* C16 amended: in that state start() is refused by its guard, because the
\* socket reference is still set, and changes nothing; stop() is what releases
\* the socket, and it leaves a state in which start() is accepted again.
C16_StartAfterFailureRefused ==
  [][/\ (StartCalled /\ FailedWithSocket) =>
          (nRefused' = nRefused + 1 /\ nStart' = nStart
           /\ UNCHANGED <<ctl, procVars, envVars, detached, nSess>>)
     /\ (StopCalled /\ FailedWithSocket) =>
          (/\ commandSocket' = Null /\ closeCalls'[commandSocket] = 1
           /\ Idle'
           /\ ~StartGuard(isStreaming', commandSocket', ffmpegSessionId'))]_vars

\* start() was called and refused, and the session sits in Error after the
\* relay failed, with the socket still open and no stop() so far
C16_Witness ==
  FailedWithSocket /\ nRefused > 0 /\ nStart = 1 /\ nStop = 0 /\ nSockErr = 0

\* a failure of one of the kinds listed has happened
FailureSeen ==
  \/ nSockErr > 0
  \/ \E p \in Procs : result[p] \in {"bindErr", "send1Err", "send2Err", "launchErr"}
  \/ \E id \in Sess : cb[id].pc = "done" /\ cb[id].outcome = "Failed"
\* a step that binds a socket, sends a datagram or issues a relay launch
BindSendOrLaunch ==
  \/ \E s \in Socks : sock[s] # "binding" /\ sock'[s] = "binding"
  \/ sent' # sent
  \/ \E p \in Procs : Enters(p, "exec")
  \/ nSess' # nSess

\* C17: nothing is retried automatically: once a failure (bind, send, launch,
\* relay Failed, socket error) has happened, no socket is bound, no datagram
\* sent and no relay launched until start() is called again.  Stated for the
\* runs with a single start() call: after a failure no such step occurs.
C17_NoStepAfterFailure ==
  [][(FailureSeen /\ nStart + nRefused = 1 /\ ~StartCalled) => ~BindSendOrLaunch]_vars

\* C18: the Cancelled completion of the tracked session clears
\* ffmpegSessionId.current, ends the callback there, and leaves isStreaming,
\* errorMessage and commandSocket.current unchanged.
C18_CancelledClearsHandleOnly ==
  [][\A id \in Sess :
       (TrackedCompare(id) /\ cb[id].outcome = "Cancelled") =>
          /\ ffmpegSessionId' = Null
          /\ cb'[id].pc = "done"
          /\ UNCHANGED <<isStreaming, errorMessage, commandSocket, sock, consoleLog>>]_vars

\* the relay reported the cancel while it was still the tracked session
C18_Witness ==
  \E id \in Sess :
    /\ cb[id] = [pc |-> "done", outcome |-> "Cancelled", tracked |-> TRUE]
    /\ ffmpegSessionId = Null /\ nStop > 0

\* C19: close() is invoked at most once on every socket start() created,
\* whatever the interleaving of the cleanups, a second cleanup starting while
\* the first awaits the cancel included.
C19_CloseAtMostOnce == \A s \in Socks : closeCalls[s] <= 1

\* two cleanups overlapped: one has closed the socket while the other, begun
\* before the first continued, is still awaiting the cancel
C19_Witness ==
  /\ nStart = 1 /\ result[1] = "launched" /\ nStop = 2 /\ nSockErr = 0
  /\ stoppedMid = {}
  /\ PendingCleanups = 1 /\ closeCalls[1] = 1 /\ commandSocket = Null

\* C20: when startFFmpeg is entered with ffmpegSessionId.current set, the
\* cancel of that session is requested and awaited and the handle is cleared
\* before FFmpegKit.executeAsync is issued; when the awaited cancel rejects,
\* no launch is issued.
C20_CancelBeforeRelaunch ==
  [][\A p \in Procs :
       /\ (pc[p] = "delay2" /\ pc'[p] # "delay2" /\ ffmpegSessionId # Null) =>
            /\ pc'[p] = "ffCancel" /\ nSess' = nSess
            /\ relay'[ffmpegSessionId] # "running" \/ faults' = faults + 1
       /\ Enters(p, "exec") =>
            \/ pc[p] = "delay2" /\ ffmpegSessionId = Null
            \/ pc[p] = "ffCancel" /\ awaitOk[p] /\ ffmpegSessionId' = Null
       /\ (pc[p] = "ffCancel" /\ ~awaitOk[p] /\ pc'[p] # pc[p]) =>
            (pc'[p] \in {"cleanup", "done"} /\ nSess' = nSess)]_vars

\* a start sequence found a session still tracked when it reached startFFmpeg
\* and is awaiting its cancel
C20_Witness ==
  \E p \in Procs : pc[p] = "ffCancel" /\ awaitOk[p] /\ ffmpegSessionId # Null
                   /\ relay[ffmpegSessionId] = "cancelling"

\* C21: in every quiescent state (no start or cleanup step in flight) every
\* relay that was launched and is still running, with no cancel requested, is
\* the tracked one: its session id equals ffmpegSessionId.current.
C21_RunningRelayTracked ==
  Quiescent => \A id \in Sess : relay[id] = "running" => ffmpegSessionId = id

StartsInFlight == {p \in Procs : InFlight(p)}

\* C22: at most one start() sequence is in flight at any time: no start()
\* passes the re-entrancy guard while an earlier one still has a bind, send,
\* delay or relay launch pending.
C22_SingleStartInFlight ==
  /\ [](Cardinality(StartsInFlight) <= 1)
  /\ [][nStart' # nStart => StartsInFlight = {}]_vars

\* C23: every handshake datagram of a start sequence is sent on the socket
\* that this start() created, and only once that socket is bound: never on a
\* socket that is unbound, closed or created by another start sequence.
C23_SendOnOwnBoundSocket ==
  [][\A p \in Procs :
       sent'[p] # sent[p] => (commandSocket = p /\ sock'[p] = "bound")]_vars

\* no completion callback is between its invocation and its end
NoCallbackPending == \A id \in Sess : cb[id].pc \notin {"rc", "logs"}

\* C24: whenever isStreaming is true and no completion callback is still
\* running, ffmpegSessionId.current is set and refers to a relay process that
\* has not terminated.
C24_StreamingHasLiveRelay ==
  (isStreaming /\ NoCallbackPending) =>
     (ffmpegSessionId # Null /\ relay[ffmpegSessionId] \in {"running", "cancelling"})

\* the ways a start invocation ends on its failure path
FailureResults == {"bindErr", "send1Err", "send2Err", "noSocket", "cancelErr", "launchErr"}

\* C25: provided every collaborator step it awaits eventually completes, a
\* start() that passed the guard terminates: it either launches the relay and
\* sets isStreaming true, or ends its failure path with the error recorded
\* and, where cleanup was invoked, the cleanup completed.
C25_StartTerminates ==
  /\ \A p \in Procs :
       (pc[p] # "idle") ~> (pc[p] = "done" /\ result[p] \in FailureResults \cup {"launched"})
  /\ [][\A p \in Procs :
          /\ Settles(p, {"launched"}) => isStreaming'
          /\ Settles(p, FailureResults) => result'[p] # "launched" /\ relayOf'[p] = Null
          /\ (pc[p] = "done" => pc'[p] = "done")]_vars

\* both start invocations have ended, one on a failure path after its cleanup
\* and one with the relay launched
C25_Witness ==
  /\ pc[1] = "done" /\ result[1] = "send1Err"
  /\ pc[2] = "done" /\ result[2] = "launched"

====
